---- MODULE Spec2Model ----
(***************************************************************************)
(* A model of go-pkgz/cronrange: the parsers of rule.go (parseRule,        *)
(* parseTimeRange, parseTime, parseField), the matcher (Rule.matches,      *)
(* Field.matches, Match), the formatters (String methods) and Parse.       *)
(*                                                                         *)
(* ParseFromReader, the command-line utility (cmd/main.go) and concurrent  *)
(* readers of one rule set follow.                                         *)
(*                                                                         *)
(* Texts are sequences of one-character strings, so that splitting,        *)
(* trimming, integer parsing and formatting are computed character by      *)
(* character as the Go code does.  Durations are counted in whole seconds  *)
(* (every time.Duration the package builds is a multiple of time.Second).  *)
(***************************************************************************)
EXTENDS Integers, Sequences, FiniteSets, TLC

VARIABLES
    pc,       \* position of the caller: which operation ran last
    text,     \* the text handed to the parser
    fmin,     \* parseField's min argument
    fmax,     \* parseField's max argument
    res,      \* what the parser returned: [val |-> value, err |-> error chain]
    str,      \* what String() returned for res.val
    res2,     \* what the parser returned for str, or for a second text
    t,        \* the instant handed to the matcher
    matched,  \* what the matcher returned
    rdr,      \* the reader handed to ParseFromReader: [data, fails]
    args,     \* os.Args[1:] of the command-line utility
    env,      \* the value of CRONRANGE_TEST_TIME
    clock,    \* what time.Now() returns
    started,  \* whether cmd.Run() has been called
    outcome,  \* how the sub-command ended: [kind, code]
    code,     \* the exit code of the process, NoCode while it runs
    shared,   \* the rule set that concurrent callers read
    callers   \* what each concurrent caller is doing

vars == <<pc, text, fmin, fmax, res, str, res2, t, matched,
          rdr, args, env, clock, started, outcome, code, shared, callers>>

\* the variables of the concurrent callers
shVars == <<shared, callers>>

\* the variables of the reader and of the command-line utility
ioVars == <<rdr, args, env, clock, started, outcome, code>>

----------------------------------------------------------------------------
(* Text primitives of the Go standard library, as used by the package.     *)

Chars(s) == [i \in 1..Len(s) |-> SubSeq(s, i, i)]

\* the longest token a bufio.Scanner with the default buffer returns
\* (bufio.MaxScanTokenSize = 64 * 1024 bytes)
MaxScanTokenSize == 65536

\* one element of a text that stands for MaxScanTokenSize spaces in a row, so
\* that a line too long for the scanner can be written down
SpaceRun == "<spaces>"

\* unicode.IsSpace on the characters the model writes
IsSpace(c) == c \in {" ", "\t", "\n", "\r", "\f", SpaceRun}

\* len(s) in bytes
ByteLen(s) ==
    Len(s) + (MaxScanTokenSize - 1) * Cardinality({i \in 1..Len(s) : s[i] = SpaceRun})

\* strings.Contains(s, c) for a one-character c
Contains(s, c) == \E i \in 1..Len(s) : s[i] = c

RECURSIVE SplitFrom(_, _, _, _)
SplitFrom(s, sep, i, cur) ==
    IF i > Len(s) THEN <<cur>>
    ELSE IF s[i] = sep THEN <<cur>> \o SplitFrom(s, sep, i + 1, <<>>)
    ELSE SplitFrom(s, sep, i + 1, Append(cur, s[i]))

\* strings.Split(s, sep) for a one-character sep: count(sep)+1 pieces
Split(s, sep) == SplitFrom(s, sep, 1, <<>>)

RECURSIVE FieldsFrom(_, _, _)
FieldsFrom(s, i, cur) ==
    IF i > Len(s) THEN (IF cur = <<>> THEN <<>> ELSE <<cur>>)
    ELSE IF IsSpace(s[i])
         THEN (IF cur = <<>> THEN <<>> ELSE <<cur>>) \o FieldsFrom(s, i + 1, <<>>)
    ELSE FieldsFrom(s, i + 1, Append(cur, s[i]))

\* strings.Fields(s): the maximal runs of non-space characters
Fields(s) == FieldsFrom(s, 1, <<>>)

RECURSIVE TrimLeft(_)
TrimLeft(s) == IF s # <<>> /\ IsSpace(Head(s)) THEN TrimLeft(Tail(s)) ELSE s

RECURSIVE TrimRight(_)
TrimRight(s) ==
    IF s # <<>> /\ IsSpace(s[Len(s)]) THEN TrimRight(SubSeq(s, 1, Len(s) - 1)) ELSE s

\* strings.TrimSpace(s)
TrimSpace(s) == TrimRight(TrimLeft(s))

RECURSIVE Join(_, _)
\* strings.Join(parts, sep)
Join(parts, sep) ==
    IF parts = <<>> THEN <<>>
    ELSE IF Len(parts) = 1 THEN parts[1]
    ELSE parts[1] \o sep \o Join(Tail(parts), sep)

----------------------------------------------------------------------------
(* Errors: the chain built by fmt.Errorf("...: %w", err), outermost first. *)
(* nil is the empty chain.                                                 *)

NoErr == <<>>

Errorf(msg, arg, cause) == <<[msg |-> msg, arg |-> arg]>> \o cause

----------------------------------------------------------------------------
(* Integers as text.                                                       *)

DigitChar(d) == SubSeq("0123456789", d + 1, d + 1)

IsDigit(c) == \E d \in 0..9 : DigitChar(d) = c

DigitVal(c) == CHOOSE d \in 0..9 : DigitChar(d) = c

RECURSIVE DigitsVal(_, _)
DigitsVal(s, n) == IF s = <<>> THEN n ELSE DigitsVal(Tail(s), n * 10 + DigitVal(Head(s)))

\* strconv.Atoi(s): an optional sign, then one or more decimal digits
\* (the texts of the model are far shorter than the 19 digits that overflow)
Atoi(s) ==
    LET signed == s # <<>> /\ Head(s) \in {"+", "-"}
        digits == IF signed THEN Tail(s) ELSE s
    IN  IF digits = <<>> \/ \E i \in 1..Len(digits) : ~IsDigit(digits[i])
        THEN [val |-> 0, err |-> Errorf("strconv.Atoi: invalid syntax", s, NoErr)]
        ELSE [val |-> IF signed /\ Head(s) = "-" THEN 0 - DigitsVal(digits, 0)
                      ELSE DigitsVal(digits, 0),
              err |-> NoErr]

RECURSIVE NatText(_)
NatText(n) == IF n < 10 THEN <<DigitChar(n)>> ELSE Append(NatText(n \div 10), DigitChar(n % 10))

\* fmt.Sprintf("%d", n)
Itoa(n) == IF n < 0 THEN <<"-">> \o NatText(0 - n) ELSE NatText(n)

\* fmt.Sprintf("%02d", n): zero-padded to width 2, the sign counted in the width
Itoa02(n) == IF 0 <= n /\ n < 10 THEN <<"0">> \o NatText(n) ELSE Itoa(n)

----------------------------------------------------------------------------
(* Field: rule.go, type Field {values map[int]bool; all bool}.  The map    *)
(* only ever holds true entries, so it is modelled by the set of its keys; *)
(* the order in which a range loop yields them is drawn from MapRange.     *)

ZeroField == [values |-> {}, all |-> FALSE]

AllField == [values |-> {}, all |-> TRUE]

\* rangeInvalid without the test of the order of the endpoints
rangeInvalidNoOrder(start, end, min, max) == start < min \/ end > max

\* parseField's test of a range item a-b against the bounds
rangeInvalid(start, end, min, max) == start < min \/ end > max \/ start > end

\* valueInvalid without the test of the lower bound
valueInvalidAboveOnly(val, min, max) == val > max

\* parseField's test of a bare value against the bounds
valueInvalid(val, min, max) == val < min \/ val > max

\* one pass of parseField's loop over the comma-separated items: the first
\* bad item returns its error, a good item adds its values and continues
RECURSIVE parseFieldItems(_, _, _, _, _)
parseFieldItems(ranges, i, values, min, max) ==
    IF i > Len(ranges) THEN [val |-> [values |-> values, all |-> FALSE], err |-> NoErr]
    ELSE LET r == ranges[i] IN
        IF Contains(r, "-")
        THEN LET parts == Split(r, "-") IN
            IF Len(parts) # 2
            THEN [val |-> ZeroField, err |-> Errorf("invalid range format", <<>>, NoErr)]
            ELSE LET start == Atoi(parts[1]) IN
                IF start.err # NoErr THEN [val |-> ZeroField, err |-> start.err]
                ELSE LET end == Atoi(parts[2]) IN
                    IF end.err # NoErr THEN [val |-> ZeroField, err |-> end.err]
                    ELSE IF rangeInvalid(start.val, end.val, min, max)
                    THEN [val |-> ZeroField,
                          err |-> Errorf("values out of range", <<>>, NoErr)]
                    ELSE parseFieldItems(ranges, i + 1,
                                         values \cup (start.val .. end.val), min, max)
        ELSE LET val == Atoi(r) IN
            IF val.err # NoErr THEN [val |-> ZeroField, err |-> val.err]
            ELSE IF valueInvalid(val.val, min, max)
            THEN [val |-> ZeroField, err |-> Errorf("value out of range", <<>>, NoErr)]
            ELSE parseFieldItems(ranges, i + 1, values \cup {val.val}, min, max)

parseField(s, min, max) ==
    IF s = <<"*">> THEN [val |-> AllField, err |-> NoErr]
    ELSE parseFieldItems(Split(s, ","), 1, {}, min, max)

\* Field.matches
FieldMatches(f, val) == f.all \/ val \in f.values

\* the keys of the map in ascending order
RECURSIVE Ascending(_)
Ascending(S) ==
    IF S = {} THEN <<>>
    ELSE LET m == CHOOSE x \in S : \A y \in S : x <= y
         IN  <<m>> \o Ascending(S \ {m})

\* "for v := range f.values": Go leaves the order of a map's keys open.  The
\* orders tried are ascending, descending, and ascending begun in the middle
\* (the runtime starts at a random bucket and wraps around).
MapRange(S) ==
    LET asc == Ascending(S)
        n == Len(asc)
        h == n \div 2
    IN  { asc,
          [k \in 1..n |-> asc[n + 1 - k]],
          SubSeq(asc, h + 1, n) \o SubSeq(asc, 1, h) }

\* SortInts that leaves the values in the order the map gave them
SortIntsUnsorted(vals) == vals

RECURSIVE SortInts(_)
\* sort.Ints(vals), vals holding distinct keys
SortInts(vals) ==
    IF vals = <<>> THEN <<>>
    ELSE LET m == CHOOSE k \in 1..Len(vals) : \A j \in 1..Len(vals) : vals[k] <= vals[j]
         IN  <<vals[m]>> \o SortInts(SubSeq(vals, 1, m - 1) \o SubSeq(vals, m + 1, Len(vals)))

\* RunText that writes only the first value of a run
RunTextStartOnly(start, prev) == Itoa(start)

\* the text of one run: "%d" when start = prev, else "%d-%d"
RunText(start, prev) ==
    IF start = prev THEN Itoa(start) ELSE Itoa(start) \o <<"-">> \o Itoa(prev)

\* runBreaks that opens a new run at every value
runBreaksAlways(v, prev) == TRUE

\* Field.String's test that v does not continue the run ending at prev
runBreaks(v, prev) == v # prev + 1

\* the loop of Field.String over the sorted values, from (1-based) index i
RECURSIVE FieldRuns(_, _, _, _, _)
FieldRuns(vals, i, start, prev, ranges) ==
    IF i > Len(vals) THEN Append(ranges, RunText(start, prev))
    ELSE IF runBreaks(vals[i], prev)
         THEN FieldRuns(vals, i + 1, vals[i], vals[i], Append(ranges, RunText(start, prev)))
         ELSE FieldRuns(vals, i + 1, start, vals[i], ranges)

\* Field.String, keys being the order in which the map yielded its keys
FieldStringOf(f, keys) ==
    IF f.all THEN <<"*">>
    ELSE LET vals == SortInts(keys) IN
        IF Len(vals) = 0 THEN <<"*">>
        ELSE Join(FieldRuns(vals, 2, vals[1], vals[1], <<>>), <<",">>)

\* Field.String where the caller does not draw the map order (Rule.String):
\* the keys come in descending order, the order furthest from the sorted one
FieldString(f) ==
    FieldStringOf(f, CHOOSE keys \in MapRange(f.values) :
                         \A k \in 1..(Len(keys) - 1) : keys[k] > keys[k + 1])

----------------------------------------------------------------------------
(* TimeRange: rule.go, type TimeRange.  start and end in seconds.          *)

Second == 1
Minute == 60
Hour == 3600

ZeroTimeRange ==
    [start |-> 0, end |-> 0, all |-> FALSE, overnight |-> FALSE, hasSeconds |-> FALSE]

\* timeValuesInvalid with the hour bound off by one
timeValuesInvalidHour24(hours, minutes, seconds) ==
    hours < 0 \/ hours > 24 \/ minutes < 0 \/ minutes > 59 \/ seconds < 0 \/ seconds > 59

\* parseTime's test of the three components
timeValuesInvalid(hours, minutes, seconds) ==
    hours < 0 \/ hours > 23 \/ minutes < 0 \/ minutes > 59 \/ seconds < 0 \/ seconds > 59

\* parseTime: HH:MM or HH:MM:SS; returns the duration, whether seconds were
\* written, and the error
parseTime(s) ==
    LET parts == Split(s, ":")
        fail(e) == [val |-> 0, hasSeconds |-> FALSE, err |-> e]
    IN  IF Len(parts) < 2 \/ Len(parts) > 3
        THEN fail(Errorf("invalid time format", <<>>, NoErr))
        ELSE LET hours == Atoi(parts[1]) IN
            IF hours.err # NoErr THEN fail(hours.err)
            ELSE LET minutes == Atoi(parts[2]) IN
                IF minutes.err # NoErr THEN fail(minutes.err)
                ELSE LET hasSeconds == Len(parts) = 3
                         seconds == IF hasSeconds THEN Atoi(parts[3])
                                    ELSE [val |-> 0, err |-> NoErr]
                     IN  IF seconds.err # NoErr THEN fail(seconds.err)
                         ELSE IF timeValuesInvalid(hours.val, minutes.val, seconds.val)
                         THEN fail(Errorf("invalid time values", <<>>, NoErr))
                         ELSE [val |-> hours.val * Hour + minutes.val * Minute
                                       + seconds.val * Second,
                               hasSeconds |-> hasSeconds,
                               err |-> NoErr]

\* overnight that also holds for equal boundaries
overnightOrEqual(start, end) == end <= start

\* parseTimeRange's "if end < start { overnight = true }"
overnight(start, end) == end < start

parseTimeRange(s) ==
    IF s = <<"*">>
    THEN [val |-> [ZeroTimeRange EXCEPT !.all = TRUE], err |-> NoErr]
    ELSE LET parts == Split(s, "-") IN
        IF Len(parts) # 2
        THEN [val |-> ZeroTimeRange, err |-> Errorf("invalid time range format", <<>>, NoErr)]
        ELSE LET start == parseTime(parts[1]) IN
            IF start.err # NoErr THEN [val |-> ZeroTimeRange, err |-> start.err]
            ELSE LET end == parseTime(parts[2]) IN
                IF end.err # NoErr THEN [val |-> ZeroTimeRange, err |-> end.err]
                ELSE [val |-> [start |-> start.val,
                               end |-> end.val,
                               all |-> FALSE,
                               overnight |-> overnight(start.val, end.val),
                               hasSeconds |-> start.hasSeconds \/ end.hasSeconds],
                      err |-> NoErr]

\* TimeRangeString that never writes the seconds
TimeRangeStringNoSeconds(tr) ==
    IF tr.all THEN <<"*">>
    ELSE Itoa02(tr.start \div Hour) \o <<":">> \o Itoa02((tr.start % Hour) \div Minute)
         \o <<"-">>
         \o Itoa02(tr.end \div Hour) \o <<":">> \o Itoa02((tr.end % Hour) \div Minute)

\* TimeRange.String
TimeRangeString(tr) ==
    IF tr.all THEN <<"*">>
    ELSE LET startH == tr.start \div Hour
             startM == (tr.start % Hour) \div Minute
             startS == (tr.start % Minute) \div Second
             endH == tr.end \div Hour
             endM == (tr.end % Hour) \div Minute
             endS == (tr.end % Minute) \div Second
         IN  IF tr.hasSeconds
             THEN Itoa02(startH) \o <<":">> \o Itoa02(startM) \o <<":">> \o Itoa02(startS)
                  \o <<"-">>
                  \o Itoa02(endH) \o <<":">> \o Itoa02(endM) \o <<":">> \o Itoa02(endS)
             ELSE Itoa02(startH) \o <<":">> \o Itoa02(startM)
                  \o <<"-">>
                  \o Itoa02(endH) \o <<":">> \o Itoa02(endM)

----------------------------------------------------------------------------
(* Rule: rule.go, type Rule, parseRule, Rule.matches, Rule.String.         *)

MinDow == 0
MaxDow == 6
MinDom == 1
MaxDom == 31
MinMonth == 1
MaxMonth == 12

ZeroRule ==
    [timeRange |-> ZeroTimeRange, dow |-> ZeroField, dom |-> ZeroField, month |-> ZeroField]

\* wrongFieldCount that only refuses too few tokens
wrongFieldCountTooFew(parts) == Len(parts) < 4

\* parseRule's test of the number of whitespace-separated tokens
wrongFieldCount(parts) == Len(parts) # 4

\* parseRule that checks the three bounded fields from the last to the first
parseRuleMonthFirst(rule) ==
    LET parts == Fields(rule) IN
    IF wrongFieldCount(parts)
    THEN [val |-> ZeroRule,
          err |-> Errorf("rule must have 4 fields: time dow dom month", <<>>, NoErr)]
    ELSE LET timeRange == parseTimeRange(parts[1])
             dow == parseField(parts[2], MinDow, MaxDow)
             dom == parseField(parts[3], MinDom, MaxDom)
             month == parseField(parts[4], MinMonth, MaxMonth)
         IN  IF timeRange.err # NoErr THEN [val |-> ZeroRule, err |-> timeRange.err]
             ELSE IF month.err # NoErr
             THEN [val |-> ZeroRule, err |-> Errorf("invalid month", <<>>, month.err)]
             ELSE IF dom.err # NoErr
             THEN [val |-> ZeroRule, err |-> Errorf("invalid dom", <<>>, dom.err)]
             ELSE IF dow.err # NoErr
             THEN [val |-> ZeroRule, err |-> Errorf("invalid dow", <<>>, dow.err)]
             ELSE [val |-> [timeRange |-> timeRange.val, dow |-> dow.val,
                            dom |-> dom.val, month |-> month.val],
                   err |-> NoErr]

parseRule(rule) ==
    LET parts == Fields(rule) IN
    IF wrongFieldCount(parts)
    THEN [val |-> ZeroRule,
          err |-> Errorf("rule must have 4 fields: time dow dom month", <<>>, NoErr)]
    ELSE LET timeRange == parseTimeRange(parts[1]) IN
        IF timeRange.err # NoErr THEN [val |-> ZeroRule, err |-> timeRange.err]
        ELSE LET dow == parseField(parts[2], MinDow, MaxDow) IN
            IF dow.err # NoErr
            THEN [val |-> ZeroRule, err |-> Errorf("invalid dow", <<>>, dow.err)]
            ELSE LET dom == parseField(parts[3], MinDom, MaxDom) IN
                IF dom.err # NoErr
                THEN [val |-> ZeroRule, err |-> Errorf("invalid dom", <<>>, dom.err)]
                ELSE LET month == parseField(parts[4], MinMonth, MaxMonth) IN
                    IF month.err # NoErr
                    THEN [val |-> ZeroRule, err |-> Errorf("invalid month", <<>>, month.err)]
                    ELSE [val |-> [timeRange |-> timeRange.val,
                                   dow |-> dow.val,
                                   dom |-> dom.val,
                                   month |-> month.val],
                          err |-> NoErr]

(* An instant is a calendar date and a time of day; the accessors of       *)
(* time.Time that Rule.matches calls are computed from it.                 *)

IsLeap(y) == y % 4 = 0 /\ (y % 100 # 0 \/ y % 400 = 0)

DaysIn(y, m) ==
    IF m = 2 THEN (IF IsLeap(y) THEN 29 ELSE 28)
    ELSE IF m \in {4, 6, 9, 11} THEN 30 ELSE 31

RECURSIVE DaysBefore(_, _)
DaysBefore(y, m) == IF m = 1 THEN 0 ELSE DaysBefore(y, m - 1) + DaysIn(y, m - 1)

\* days since Monday 0001-01-01 of the proleptic Gregorian calendar
AbsDay(i) ==
    LET y == i.year - 1
    IN  365 * y + y \div 4 - y \div 100 + y \div 400 + DaysBefore(i.year, i.month) + i.day - 1

\* t.Weekday(): 0 = Sunday ... 6 = Saturday
Weekday(i) == (AbsDay(i) + 1) % 7

\* timeMatches with the end of a same-day range excluded
timeMatchesEndExclusive(tr, currentTime) ==
    IF tr.overnight
    THEN currentTime >= tr.start \/ currentTime <= tr.end
    ELSE currentTime >= tr.start /\ currentTime < tr.end

\* timeMatches with the start of an overnight range excluded
timeMatchesStartExclusive(tr, currentTime) ==
    IF tr.overnight
    THEN currentTime > tr.start \/ currentTime <= tr.end
    ELSE currentTime >= tr.start /\ currentTime <= tr.end

\* timeMatches with the end of an overnight range excluded
timeMatchesOvernightEndExclusive(tr, currentTime) ==
    IF tr.overnight
    THEN currentTime >= tr.start \/ currentTime < tr.end
    ELSE currentTime >= tr.start /\ currentTime <= tr.end

\* the time-of-day test that ends Rule.matches
timeMatches(tr, currentTime) ==
    IF tr.overnight
    THEN currentTime >= tr.start \/ currentTime <= tr.end
    ELSE currentTime >= tr.start /\ currentTime <= tr.end

\* Rule.matches without the day-of-month test
RuleMatchesNoDom(r, i) ==
    IF ~FieldMatches(r.month, i.month) THEN FALSE
    ELSE IF ~FieldMatches(r.dow, Weekday(i)) THEN FALSE
    ELSE IF r.timeRange.all THEN TRUE
    ELSE timeMatches(r.timeRange, i.hour * Hour + i.minute * Minute + i.second * Second)

\* Rule.matches that, in the early-morning part of an overnight range, tests
\* the day of week of the day before, on which the window began
RuleMatchesWindowDay(r, i) ==
    LET currentTime == i.hour * Hour + i.minute * Minute + i.second * Second
        early == /\ ~r.timeRange.all
                 /\ r.timeRange.overnight
                 /\ currentTime <= r.timeRange.end
        weekday == IF early THEN (Weekday(i) + 6) % 7 ELSE Weekday(i)
    IN  IF ~FieldMatches(r.month, i.month) THEN FALSE
        ELSE IF ~FieldMatches(r.dom, i.day) THEN FALSE
        ELSE IF ~FieldMatches(r.dow, weekday) THEN FALSE
        ELSE IF r.timeRange.all THEN TRUE
        ELSE timeMatches(r.timeRange, currentTime)

\* Rule.matches
RuleMatches(r, i) ==
    IF ~FieldMatches(r.month, i.month) THEN FALSE
    ELSE IF ~FieldMatches(r.dom, i.day) THEN FALSE
    ELSE IF ~FieldMatches(r.dow, Weekday(i)) THEN FALSE
    ELSE IF r.timeRange.all THEN TRUE
    ELSE timeMatches(r.timeRange, i.hour * Hour + i.minute * Minute + i.second * Second)

\* RuleString that writes the day of month before the day of week
RuleStringDomFirst(r) ==
    TimeRangeString(r.timeRange) \o <<" ">> \o FieldString(r.dom) \o <<" ">>
    \o FieldString(r.dow) \o <<" ">> \o FieldString(r.month)

\* Rule.String
RuleString(r) ==
    TimeRangeString(r.timeRange) \o <<" ">> \o FieldString(r.dow) \o <<" ">>
    \o FieldString(r.dom) \o <<" ">> \o FieldString(r.month)

----------------------------------------------------------------------------
(* cronrange.go: Parse and Match.                                          *)

\* the loop of Parse over the ';'-separated segments, from index i
RECURSIVE ParseFrom(_, _, _)
ParseFrom(rules, i, result) ==
    IF i > Len(rules) THEN [val |-> result, err |-> NoErr]
    ELSE LET rule == parseRule(TrimSpace(rules[i])) IN
        IF rule.err # NoErr
        THEN [val |-> <<>>, err |-> Errorf("invalid rule", rules[i], rule.err)]
        ELSE ParseFrom(rules, i + 1, Append(result, rule.val))

\* Parse that keeps the rules parsed before the first invalid segment
ParseKeepsPartial(expr) ==
    LET rules == Split(expr, ";")
        bad == {k \in 1..Len(rules) : parseRule(TrimSpace(rules[k])).err # NoErr}
    IN  IF bad = {} THEN ParseFrom(rules, 1, <<>>)
        ELSE LET first == CHOOSE k \in bad : \A j \in bad : k <= j
             IN  [val |-> ParseFrom(SubSeq(rules, 1, first - 1), 1, <<>>).val,
                  err |-> ParseFrom(rules, 1, <<>>).err]

\* Parse that puts each new rule in front of the result
ParsePrepends(expr) ==
    LET p == ParseFrom(Split(expr, ";"), 1, <<>>)
    IN  [val |-> [k \in 1..Len(p.val) |-> p.val[Len(p.val) + 1 - k]], err |-> p.err]

Parse(expr) == ParseFrom(Split(expr, ";"), 1, <<>>)

\* the loop of Match, from index i: true at the first rule that matches
RECURSIVE MatchFrom(_, _, _)
MatchFrom(rules, i, at) ==
    IF i > Len(rules) THEN FALSE
    ELSE IF RuleMatches(rules[i], at) THEN TRUE
    ELSE MatchFrom(rules, i + 1, at)

\* Match that returns the verdict of the last rule only
MatchLastOnly(rules, at) == Len(rules) > 0 /\ RuleMatches(rules[Len(rules)], at)

Match(rules, at) == MatchFrom(rules, 1, at)

\* rulesAfterMatches that stores the looked-up weekday in the dow map
rulesAfterMatchesStoring(rs, k, at) ==
    IF rs[k].dow.all THEN rs
    ELSE [rs EXCEPT ![k].dow.values = @ \cup {Weekday(at)}]

\* the caller's rule set after rs[k].matches(at): Rule.matches and
\* Field.matches have value receivers, assign to no field, and read the
\* value maps without storing into them
rulesAfterMatches(rs, k, at) == rs

\* rulesAfterString that leaves the rule's dom map empty
rulesAfterStringDraining(rs, k) == [rs EXCEPT ![k].dom.values = {}]

\* the caller's rule set after rs[k].String(): the String methods have value
\* receivers, and Field.String sorts its own slice vals, not the map
rulesAfterString(rs, k) == rs

\* the loop that writes a rule set back as text: the rules' String() values
\* with "; " between them
RECURSIVE RenderFrom(_, _, _)
RenderFrom(rules, i, gotStr) ==
    IF i > Len(rules) THEN gotStr
    ELSE RenderFrom(rules, i + 1,
                    (IF i > 1 THEN gotStr \o <<";", " ">> ELSE gotStr)
                    \o RuleString(rules[i]))

Render(rules) == RenderFrom(rules, 1, <<>>)

\* bufio.ErrTooLong
ErrTooLong == <<[msg |-> "bufio.Scanner: token too long", arg |-> <<>>]>>

\* the error of a reader whose Read fails
ErrRead == <<[msg |-> "read failed", arg |-> <<>>]>>

\* bufio.ScanLines over the buffer: the pieces between "\n", a last piece
\* without "\n" included unless it is empty
ScanLines(buf) ==
    LET parts == Split(buf, "\n")
    IN  IF parts[Len(parts)] = <<>> THEN SubSeq(parts, 1, Len(parts) - 1) ELSE parts

\* bufio.ScanLines drops one trailing "\r" from the line it returns
dropCR(line) ==
    IF Len(line) > 0 /\ line[Len(line)] = "\r"
    THEN SubSeq(line, 1, Len(line) - 1) ELSE line

\* tokenTooLong with no limit on the length of a line
tokenTooLongNever(line) == FALSE

\* Scanner.Scan gives up with ErrTooLong when the buffer, grown to
\* MaxScanTokenSize, is full and holds no end of line
tokenTooLong(line) == ByteLen(line) >= MaxScanTokenSize

\* the loop of ParseFromReader over the scanned lines, from index i
RECURSIVE ReadLinesFrom(_, _, _)
ReadLinesFrom(lines, i, result) ==
    IF i > Len(lines) THEN [val |-> result, err |-> NoErr]
    ELSE IF tokenTooLong(lines[i])
    THEN [val |-> <<>>, err |-> Errorf("error reading input", <<>>, ErrTooLong)]
    ELSE LET rule == TrimSpace(dropCR(lines[i])) IN
        IF rule = <<>> THEN ReadLinesFrom(lines, i + 1, result)
        ELSE LET r == Parse(rule) IN
            IF r.err # NoErr
            THEN [val |-> <<>>, err |-> Errorf("invalid rule", rule, r.err)]
            ELSE ReadLinesFrom(lines, i + 1, result \o r.val)

ParseFromReader(r) ==
    IF r.fails
    THEN [val |-> <<>>, err |-> Errorf("can't read from reader", <<>>, ErrRead)]
    ELSE IF Len(r.data) = 0 THEN [val |-> <<>>, err |-> NoErr]
    ELSE ReadLinesFrom(ScanLines(r.data), 1, <<>>)

----------------------------------------------------------------------------
(* Callers.  Each specification draws the inputs of one layer of the       *)
(* package from a bounded set and applies the operations to them.          *)

\* the most comma-separated items in a generated field text
MaxItems == 2

NoRes == [val |-> <<>>, err |-> NoErr]

NoInstant == [year |-> 1, month |-> 1, day |-> 1, hour |-> 0, minute |-> 0, second |-> 0]

NoReader == [data |-> <<>>, fails |-> FALSE]

NoOutcome == [kind |-> "none", code |-> 0]

\* the value of code while the process has not exited
NoCode == -1

\* the reader, the command-line utility and the concurrent callers take no
\* part
IoUnused ==
    /\ rdr = NoReader
    /\ args = <<>>
    /\ env = <<>>
    /\ clock = NoInstant
    /\ started = FALSE
    /\ outcome = NoOutcome
    /\ code = NoCode
    /\ shared = <<>>
    /\ callers = <<>>

\* all sequences of 1..n elements of S
RECURSIVE SeqsUpTo(_, _)
SeqsUpTo(S, n) ==
    IF n = 0 THEN {}
    ELSE {<<x>> : x \in S}
         \cup {Append(q, x) : q \in SeqsUpTo(S, n - 1), x \in S}

\* the (min,max) pairs parseRule passes to parseField
FieldBounds == {<<MinDow, MaxDow>>, <<MinDom, MaxDom>>, <<MinMonth, MaxMonth>>}

\* integers written as bare items: around and beyond both bounds
BareNums(min, max) == {min - 1, min, min + 1, min + 2, max - 1, max, max + 1}

\* integers written as range endpoints
RangeEnds(min, max) == {min - 1, min, min + 1, max, max + 1}

\* items that are not plain decimal numbers or ranges of them
OddItems(min, max) ==
    { <<>>, Chars("a"), Chars("*"), Chars("a-b"), Chars("-0"),
      Itoa(min) \o <<"-">>,
      <<"+">> \o Itoa(min + 1),
      <<"0">> \o Itoa(max),
      Itoa(min) \o <<"-">> \o Itoa(min + 1) \o <<"-">> \o Itoa(max),
      Itoa(min) \o <<"-", "+">> \o Itoa(max) }

FieldItems(min, max) ==
    {Itoa(n) : n \in BareNums(min, max)}
    \cup {Itoa(a) \o <<"-">> \o Itoa(b) : a \in RangeEnds(min, max), b \in RangeEnds(min, max)}
    \cup OddItems(min, max)

FieldTexts(min, max) ==
    {Chars("*")} \cup {Join(items, <<",">>) : items \in SeqsUpTo(FieldItems(min, max), MaxItems)}

InitField ==
    /\ pc = "start"
    /\ \E b \in FieldBounds :
        /\ fmin = b[1]
        /\ fmax = b[2]
        /\ text \in FieldTexts(b[1], b[2])
    /\ res = NoRes
    /\ str = <<>>
    /\ res2 = NoRes
    /\ t = NoInstant
    /\ matched = FALSE
    /\ IoUnused

\* field, err := parseField(text, min, max)
ParseFieldStep ==
    /\ pc = "start"
    /\ res' = parseField(text, fmin, fmax)
    /\ pc' = "parsed"
    /\ UNCHANGED <<text, fmin, fmax, str, res2, t, matched>>
    /\ UNCHANGED ioVars
    /\ UNCHANGED shVars

\* str := field.String()
FieldStringStep ==
    /\ pc = "parsed"
    /\ res.err = NoErr
    /\ \E keys \in MapRange(res.val.values) : str' = FieldStringOf(res.val, keys)
    /\ pc' = "rendered"
    /\ UNCHANGED <<text, fmin, fmax, res, res2, t, matched>>
    /\ UNCHANGED ioVars
    /\ UNCHANGED shVars

\* field2, err := parseField(str, min, max)
ReparseFieldStep ==
    /\ pc = "rendered"
    /\ res2' = parseField(str, fmin, fmax)
    /\ pc' = "reparsed"
    /\ UNCHANGED <<text, fmin, fmax, res, str, t, matched>>
    /\ UNCHANGED ioVars
    /\ UNCHANGED shVars

\* items of the second text handed to parseField beside a rendered one
OtherItems(min, max) ==
    {Itoa(n) : n \in {min, min + 1, min + 2, max}}
    \cup {Itoa(a) \o <<"-">> \o Itoa(b) :
              a \in {min, min + 1}, b \in {min + 1, min + 2, max}}
    \cup {Chars("a")}

\* the second texts: "*" and one or two items
OtherTexts(min, max) ==
    {Chars("*")} \cup {Join(items, <<",">>) : items \in SeqsUpTo(OtherItems(min, max), 2)}

\* other, err := parseField(otherText, min, max), beside the rendered field
OtherFieldStep ==
    /\ pc = "rendered"
    /\ \E other \in OtherTexts(fmin, fmax) : res2' = parseField(other, fmin, fmax)
    /\ pc' = "compared"
    /\ UNCHANGED <<text, fmin, fmax, res, str, t, matched>>
    /\ UNCHANGED ioVars
    /\ UNCHANGED shVars

NextField == ParseFieldStep \/ FieldStringStep \/ ReparseFieldStep \/ OtherFieldStep

SpecField == InitField /\ [][NextField]_vars

(* parseTimeRange on generated time tokens.                                *)

HourTexts == {Chars(x) : x \in {"00", "09", "9", "+9", "23", "24", "-1", "a", ""}}

MinuteTexts == {Chars(x) : x \in {"00", "5", "59", "60", "x", ""}}

SecondTexts == {Chars(x) : x \in {"00", "11", "59", "60", ""}}

\* time-of-day sub-tokens: HH:MM, HH:MM:SS, and texts with 1 or 4 components
TimeOfDayTexts ==
    {h \o <<":">> \o m : h \in HourTexts, m \in MinuteTexts}
    \cup {h \o <<":">> \o m \o <<":">> \o sec :
            h \in HourTexts, m \in {Chars("00"), Chars("59"), Chars("60")}, sec \in SecondTexts}
    \cup {Chars(x) : x \in {"", "12", "0900", "12:00:00:00"}}

TimeRangeTexts ==
    {a \o <<"-">> \o b : a \in TimeOfDayTexts, b \in TimeOfDayTexts}
    \cup TimeOfDayTexts
    \cup {Chars(x) : x \in {"*", "**", "9:00to17:00", "09:00-12:00-17:00", "09:00--17:00"}}

InitTime ==
    /\ pc = "start"
    /\ text \in TimeRangeTexts
    /\ fmin = 0
    /\ fmax = 0
    /\ res = NoRes
    /\ str = <<>>
    /\ res2 = NoRes
    /\ t = NoInstant
    /\ matched = FALSE
    /\ IoUnused

\* timeRange, err := parseTimeRange(text)
ParseTimeRangeStep ==
    /\ pc = "start"
    /\ res' = parseTimeRange(text)
    /\ pc' = "parsed"
    /\ UNCHANGED <<text, fmin, fmax, str, res2, t, matched>>
    /\ UNCHANGED ioVars
    /\ UNCHANGED shVars

\* str := timeRange.String()
TimeRangeStringStep ==
    /\ pc = "parsed"
    /\ res.err = NoErr
    /\ str' = TimeRangeString(res.val)
    /\ pc' = "rendered"
    /\ UNCHANGED <<text, fmin, fmax, res, res2, t, matched>>
    /\ UNCHANGED ioVars
    /\ UNCHANGED shVars

\* timeRange2, err := parseTimeRange(str)
ReparseTimeRangeStep ==
    /\ pc = "rendered"
    /\ res2' = parseTimeRange(str)
    /\ pc' = "reparsed"
    /\ UNCHANGED <<text, fmin, fmax, res, str, t, matched>>
    /\ UNCHANGED ioVars
    /\ UNCHANGED shVars

NextTime == ParseTimeRangeStep \/ TimeRangeStringStep \/ ReparseTimeRangeStep

SpecTime == InitTime /\ [][NextTime]_vars

(* Instants handed to the matcher.                                         *)

\* the calendar dates: 2024-01-01 is a Monday, 2024-01-06 a Saturday
Dates ==
    {[year |-> 2024, month |-> m, day |-> d] : m \in {1, 4}, d \in {1, 2, 6, 7, 14, 15}}

\* a few times of day <<hour, minute, second>> inside and outside the
\* generated time ranges
CoarseTimes ==
    {<<1, 30, 0>>, <<2, 0, 1>>, <<12, 0, 0>>, <<16, 30, 0>>, <<18, 30, 0>>, <<23, 0, 0>>}

\* the times of day <<hour, minute, second>>: the boundaries of the
\* generated time ranges, one second before and after them, and times between
TimesOfDay ==
    { <<0, 0, 0>>, <<0, 0, 1>>, <<1, 30, 0>>, <<1, 59, 59>>, <<2, 0, 0>>, <<2, 0, 1>>,
      <<8, 59, 59>>, <<9, 0, 0>>, <<9, 0, 1>>, <<9, 0, 10>>, <<9, 0, 11>>, <<9, 0, 12>>,
      <<11, 59, 59>>, <<12, 0, 0>>, <<12, 0, 1>>, <<13, 0, 0>>, <<16, 30, 0>>,
      <<16, 59, 59>>, <<17, 0, 0>>, <<17, 0, 1>>, <<17, 0, 21>>, <<17, 0, 22>>,
      <<17, 0, 23>>, <<17, 0, 59>>, <<17, 1, 0>>, <<18, 30, 0>>, <<22, 59, 59>>,
      <<23, 0, 0>>, <<23, 0, 1>>, <<23, 59, 59>> }

At(d, c) ==
    [year |-> d.year, month |-> d.month, day |-> d.day,
     hour |-> c[1], minute |-> c[2], second |-> c[3]]

Instants == {At(d, c) : d \in Dates, c \in TimesOfDay}

CoarseInstants == {At(d, c) : d \in Dates, c \in CoarseTimes}

(* parseRule and Rule.matches on generated rule segments.                  *)

RuleTimeTokens ==
    {Chars(x) : x \in {"*", "09:00-17:00", "12:00-12:00", "23:00-02:00", "17:00-09:00",
                       "09:00:11-17:00:22", "17:00:22-09:00:11", "00:00-23:59:59",
                       "25:00-26:00", "1720-2135"}}

RuleDowTokens == {Chars(x) : x \in {"*", "1-5", "0,6", "1", "7"}}

RuleDomTokens == {Chars(x) : x \in {"*", "1,15", "2-14", "32"}}

RuleMonthTokens == {Chars(x) : x \in {"*", "4-9", "1", "13"}}

\* segments with a token count other than 4, and with other white space
OddRules ==
    {Chars(x) : x \in {"", " ", "*", "* *", "17:20-21:35 1-5 *", "* * * * *",
                       "* 0,6 * * # weekend", "7 7 7", "x x x x x",
                       " *  0,6\t* * ", "*\t*\t*\t*"}}

RuleTexts ==
    {Join(<<a, b, c, d>>, <<" ">>) :
        a \in RuleTimeTokens, b \in RuleDowTokens, c \in RuleDomTokens, d \in RuleMonthTokens}
    \cup OddRules

InitRule ==
    /\ pc = "start"
    /\ text \in RuleTexts
    /\ fmin = 0
    /\ fmax = 0
    /\ res = NoRes
    /\ str = <<>>
    /\ res2 = NoRes
    /\ t = NoInstant
    /\ matched = FALSE
    /\ IoUnused

\* rule, err := parseRule(text)
ParseRuleStep ==
    /\ pc = "start"
    /\ res' = parseRule(text)
    /\ pc' = "parsed"
    /\ UNCHANGED <<text, fmin, fmax, str, res2, t, matched>>
    /\ UNCHANGED ioVars
    /\ UNCHANGED shVars

\* matched := rule.matches(at)
RuleMatchesStep ==
    /\ pc = "parsed"
    /\ res.err = NoErr
    /\ \E at \in Instants :
        /\ t' = at
        /\ matched' = RuleMatches(res.val, at)
    /\ pc' = "matched"
    /\ UNCHANGED <<text, fmin, fmax, res, str, res2>>
    /\ UNCHANGED ioVars
    /\ UNCHANGED shVars

NextRule == ParseRuleStep \/ RuleMatchesStep

SpecRule == InitRule /\ [][NextRule]_vars

(* Parse and Match on generated expressions.                               *)

\* the most ';'-separated segments in a generated expression
MaxSegments == 3

ExprSegments ==
    {Chars(x) : x \in {"17:20-21:35 1-5 * *", " * 0,6 * *", "12:00-13:00 * 1,15 * ",
                       "23:00-02:00 1 * *", "09:00:11-17:00:22 1-5 * 4-9",
                       "9:05-17:00:30 1-2,3,5 01,1 +4",
                       "", " ", "17:20-21:35 1-5 *", "* 0,6 * * # weekend",
                       "25:00-26:00 1-5 * *", "17:20-21:35 7 * *", "* * 32 13"}}

ExprTexts == {Join(segs, <<";">>) : segs \in SeqsUpTo(ExprSegments, MaxSegments)}

Init ==
    /\ pc = "start"
    /\ text \in ExprTexts
    /\ fmin = 0
    /\ fmax = 0
    /\ res = NoRes
    /\ str = <<>>
    /\ res2 = NoRes
    /\ t = NoInstant
    /\ matched = FALSE
    /\ IoUnused

\* rules, err := Parse(text)
ParseStep ==
    /\ pc = "start"
    /\ res' = Parse(text)
    /\ pc' = "parsed"
    /\ UNCHANGED <<text, fmin, fmax, str, res2, t, matched>>
    /\ UNCHANGED ioVars
    /\ UNCHANGED shVars

\* matched := Match(rules, at); on a parse error rules is nil
MatchStep ==
    /\ pc = "parsed"
    /\ \E at \in CoarseInstants :
        /\ t' = at
        /\ matched' = Match(res.val, at)
    /\ pc' = "matched"
    /\ UNCHANGED <<text, fmin, fmax, res, str, res2>>
    /\ UNCHANGED ioVars
    /\ UNCHANGED shVars

\* gotStr := the rules of a successful Parse written back as text
RenderStep ==
    /\ pc = "parsed"
    /\ res.err = NoErr
    /\ str' = Render(res.val)
    /\ pc' = "rendered"
    /\ UNCHANGED <<text, fmin, fmax, res, res2, t, matched>>
    /\ UNCHANGED ioVars
    /\ UNCHANGED shVars

\* rules2, err := Parse(gotStr)
ReparseStep ==
    /\ pc = "rendered"
    /\ res2' = Parse(str)
    /\ pc' = "reparsed"
    /\ UNCHANGED <<text, fmin, fmax, res, str, t, matched>>
    /\ UNCHANGED ioVars
    /\ UNCHANGED shVars

\* matched := Match(rules2, at)
RematchStep ==
    /\ pc = "reparsed"
    /\ \E at \in Instants :
        /\ t' = at
        /\ matched' = Match(res2.val, at)
    /\ pc' = "rematched"
    /\ UNCHANGED <<text, fmin, fmax, res, str, res2>>
    /\ UNCHANGED ioVars
    /\ UNCHANGED shVars

Next == ParseStep \/ MatchStep \/ RenderStep \/ ReparseStep \/ RematchStep

Spec == Init /\ [][Next]_vars

(* ParseFromReader on generated streams.                                   *)

\* the most lines in a generated stream
MaxLines == 3

\* lines: valid expressions, blank lines, invalid expressions, and lines
\* longer than the scanner's buffer
ReaderLines ==
    {Chars(x) : x \in {"17:20-21:35 1-5 * *", " * 0,6 * *; 23:00-02:00 1 * * ",
                       "12:00-13:00 * 1,15 *\r", "", "  ", "\r",
                       "invalid rule", "* * 32 13", "* 1-5 * *; bad"}}
    \cup {Chars("* 0,6 * *") \o <<SpaceRun>>, <<SpaceRun>>}

\* streams: the empty one, and lines joined by "\n" with or without a last "\n"
ReaderData ==
    {<<>>}
    \cup {Join(ls, <<"\n">>) : ls \in SeqsUpTo(ReaderLines, MaxLines)}
    \cup {Join(ls, <<"\n">>) \o <<"\n">> : ls \in SeqsUpTo(ReaderLines, MaxLines)}

InitReader ==
    /\ pc = "start"
    /\ rdr \in [data : ReaderData, fails : BOOLEAN]
    /\ text = <<>>
    /\ fmin = 0
    /\ fmax = 0
    /\ res = NoRes
    /\ str = <<>>
    /\ res2 = NoRes
    /\ t = NoInstant
    /\ matched = FALSE
    /\ args = <<>>
    /\ env = <<>>
    /\ clock = NoInstant
    /\ started = FALSE
    /\ outcome = NoOutcome
    /\ code = NoCode
    /\ shared = <<>>
    /\ callers = <<>>

\* rules, err := ParseFromReader(rdr)
ParseFromReaderStep ==
    /\ pc = "start"
    /\ res' = ParseFromReader(rdr)
    /\ pc' = "loaded"
    /\ UNCHANGED <<text, fmin, fmax, str, res2, t, matched>>
    /\ UNCHANGED ioVars
    /\ UNCHANGED shVars

NextReader == ParseFromReaderStep

SpecReader == InitReader /\ [][NextReader]_vars

(* The command-line utility, cmd/main.go.                                  *)

\* the error of time.Parse
ErrTimeParse == <<[msg |-> "parsing time", arg |-> <<>>]>>

\* time.Parse(time.RFC3339, s) for texts of the shapes YYYY-MM-DDTHH:MM:SSZ
\* and YYYY-MM-DDTHH:MM:SS+hh:mm (or -hh:mm).  The fields of the result are
\* the wall-clock fields as written, which is what Month(), Day(), Weekday(),
\* Hour(), Minute() and Second() return for the parsed time.
ParseRFC3339(s) ==
    LET fail == [val |-> NoInstant, err |-> ErrTimeParse]
        digitsAt(ps) == \A k \in ps : IsDigit(s[k])
        num(a, b) == DigitsVal(SubSeq(s, a, b), 0)
        zoneOk == \/ Len(s) = 20 /\ s[20] = "Z"
                  \/ /\ Len(s) = 25
                     /\ s[20] \in {"+", "-"}
                     /\ s[23] = ":"
                     /\ digitsAt({21, 22, 24, 25})
                     /\ num(21, 22) <= 23
                     /\ num(24, 25) <= 59
    IN  IF Len(s) \notin {20, 25} THEN fail
        ELSE IF ~(s[5] = "-" /\ s[8] = "-" /\ s[11] = "T" /\ s[14] = ":" /\ s[17] = ":")
        THEN fail
        ELSE IF ~digitsAt({1, 2, 3, 4, 6, 7, 9, 10, 12, 13, 15, 16, 18, 19}) THEN fail
        ELSE IF ~zoneOk THEN fail
        ELSE LET year == num(1, 4)
                 month == num(6, 7)
                 day == num(9, 10)
                 hour == num(12, 13)
                 minute == num(15, 16)
                 second == num(18, 19)
             IN  IF month < 1 \/ month > 12 \/ hour > 23 \/ minute > 59 \/ second > 59
                 THEN fail
                 ELSE IF day < 1 \/ day > DaysIn(year, month) THEN fail
                 ELSE [val |-> [year |-> year, month |-> month, day |-> day,
                                hour |-> hour, minute |-> minute, second |-> second],
                       err |-> NoErr]

\* outsideRange that lets every instant through
outsideRangeNever(m) == FALSE

\* main's test "if !cronrange.Match(rules, now)"
outsideRange(m) == ~m

\* exitCodeOf that reports every failure of the sub-command as 1
exitCodeOfAlwaysOne(o) == IF o.kind = "ok" THEN 0 ELSE 1

\* the exit code after cmd.Run(): 0 when it returned nil (main returns), the
\* sub-command's own code for an *exec.ExitError (os.Exit keeps the low eight
\* bits, so ExitCode() = -1 of a killed sub-command becomes 255), else 1
exitCodeOf(o) ==
    IF o.kind = "ok" THEN 0
    ELSE IF o.kind = "exit" THEN o.code % 256
    ELSE 1

\* the expressions given as os.Args[1]
CliExprs ==
    {Chars(x) : x \in {"* * * *", "00:00-00:01 * * *", "* 1-5 * *", "12:00-13:00 * * *",
                       "* 0,6 * *; 12:00-13:00 1-5 * *", "invalid", "17:20-21:35 1-5 *"}}

\* cronrange.Parse on each of these expressions, worked out once
CliParse == [x \in CliExprs |-> Parse(x)]

\* the sub-commands given as os.Args[2]
CliCommands == {Chars(x) : x \in {"echo", "sh", "nonexistentcmd"}}

\* the values of CRONRANGE_TEST_TIME: unset, a Tuesday, a Sunday, a time with
\* a zone offset, and texts that are not RFC 3339 times
CliTestTimes ==
    {Chars(x) : x \in {"", "2024-01-02T12:30:00Z", "2024-01-07T12:30:00Z",
                       "2024-01-02T00:00:30+01:00", "2024-01-02 12:30:00",
                       "2024-02-30T12:30:00Z", "now"}}

\* how cmd.Run() can end: nil, an *exec.ExitError with the sub-command's exit
\* code (-1 when a signal killed it), or another error (it could not be run)
Outcomes ==
    {[kind |-> "ok", code |-> 0], [kind |-> "error", code |-> 0]}
    \cup {[kind |-> "exit", code |-> c] : c \in {1, 2, 42, 255, -1}}

InitCli ==
    /\ pc = "start"
    /\ args \in {<<>>} \cup {<<x>> : x \in CliExprs}
                \cup {<<x, c>> : x \in CliExprs, c \in CliCommands}
    /\ env \in CliTestTimes
    /\ clock \in {At(d, c) : d \in {[year |-> 2024, month |-> 1, day |-> 2],
                                     [year |-> 2024, month |-> 1, day |-> 7]},
                             c \in {<<0, 0, 30>>, <<12, 30, 0>>}}
    /\ text = <<>>
    /\ fmin = 0
    /\ fmax = 0
    /\ res = NoRes
    /\ str = <<>>
    /\ res2 = NoRes
    /\ t = NoInstant
    /\ matched = FALSE
    /\ rdr = NoReader
    /\ started = FALSE
    /\ outcome = NoOutcome
    /\ code = NoCode
    /\ shared = <<>>
    /\ callers = <<>>

\* os.Exit(c)
Exit(c) == code' = c /\ pc' = "exited"

\* if len(os.Args) < 2 { usage; os.Exit(2) }
CheckArgs ==
    /\ pc = "start"
    /\ IF Len(args) + 1 < 2 THEN Exit(2) ELSE pc' = "args" /\ UNCHANGED code
    /\ UNCHANGED <<text, fmin, fmax, res, str, res2, t, matched>>
    /\ UNCHANGED <<rdr, args, env, clock, started, outcome>>
    /\ UNCHANGED shVars

\* rules, err := cronrange.Parse(os.Args[1]); if err != nil { os.Exit(2) }
ParseArg ==
    /\ pc = "args"
    /\ res' = CliParse[args[1]]
    /\ IF res'.err # NoErr THEN Exit(2) ELSE pc' = "parsed" /\ UNCHANGED code
    /\ UNCHANGED <<text, fmin, fmax, str, res2, t, matched>>
    /\ UNCHANGED <<rdr, args, env, clock, started, outcome>>
    /\ UNCHANGED shVars

\* now := time.Now(), or the parsed CRONRANGE_TEST_TIME; os.Exit(2) when it
\* does not parse
GetTime ==
    /\ pc = "parsed"
    /\ IF env = <<>>
       THEN t' = clock /\ pc' = "timed" /\ UNCHANGED code
       ELSE LET parsed == ParseRFC3339(env) IN
            IF parsed.err # NoErr
            THEN Exit(2) /\ UNCHANGED t
            ELSE t' = parsed.val /\ pc' = "timed" /\ UNCHANGED code
    /\ UNCHANGED <<text, fmin, fmax, res, str, res2, matched>>
    /\ UNCHANGED <<rdr, args, env, clock, started, outcome>>
    /\ UNCHANGED shVars

\* if !cronrange.Match(rules, now) { os.Exit(1) }
MatchNow ==
    /\ pc = "timed"
    /\ matched' = Match(res.val, t)
    /\ IF outsideRange(matched') THEN Exit(1) ELSE pc' = "matched" /\ UNCHANGED code
    /\ UNCHANGED <<text, fmin, fmax, res, str, res2, t>>
    /\ UNCHANGED <<rdr, args, env, clock, started, outcome>>
    /\ UNCHANGED shVars

\* if len(os.Args) == 2 { os.Exit(0) }
NoCommand ==
    /\ pc = "matched"
    /\ Len(args) + 1 = 2
    /\ Exit(0)
    /\ UNCHANGED <<text, fmin, fmax, res, str, res2, t, matched>>
    /\ UNCHANGED <<rdr, args, env, clock, started, outcome>>
    /\ UNCHANGED shVars

\* cmd := exec.Command(os.Args[2], os.Args[3:]...); cmd.Run() is called
RunCommand ==
    /\ pc = "matched"
    /\ Len(args) + 1 # 2
    /\ started' = TRUE
    /\ pc' = "running"
    /\ UNCHANGED <<text, fmin, fmax, res, str, res2, t, matched>>
    /\ UNCHANGED <<rdr, args, env, clock, outcome, code>>
    /\ UNCHANGED shVars

\* cmd.Run() returns, and main exits with the code that follows from it
CommandEnds ==
    /\ pc = "running"
    /\ \E o \in Outcomes :
        /\ outcome' = o
        /\ Exit(exitCodeOf(o))
    /\ UNCHANGED <<text, fmin, fmax, res, str, res2, t, matched>>
    /\ UNCHANGED <<rdr, args, env, clock, started>>
    /\ UNCHANGED shVars

\* the steps of main itself, which run one after the other without waiting
MainSteps == CheckArgs \/ ParseArg \/ GetTime \/ MatchNow \/ NoCommand \/ RunCommand

NextCli == MainSteps \/ CommandEnds

\* main runs on until it exits or waits for the sub-command; whether the
\* sub-command ever ends is up to the sub-command
SpecCli == InitCli /\ [][NextCli]_vars /\ WF_vars(MainSteps)

(* Concurrent callers of Match and String() on one parsed rule set.        *)

\* the number of goroutines that read the rule set
NumCallers == 2

\* the most calls one goroutine makes
MaxCalls == 2

Callers == 1..NumCallers

SharedExprs ==
    {Chars(x) : x \in {"23:00-02:00 1 * *; 12:00-13:00 * 1,15 *",
                       "* 0,6 * *",
                       "09:00:11-17:00:22 1-5 * 4-9;17:20-21:35 2-3,1 * *"}}

\* a Monday night, a Tuesday noon, a Saturday, and a weekday in April
SharedInstants ==
    { At([year |-> 2024, month |-> 1, day |-> 1], <<1, 30, 0>>),
      At([year |-> 2024, month |-> 1, day |-> 2], <<12, 0, 0>>),
      At([year |-> 2024, month |-> 1, day |-> 6], <<18, 30, 0>>),
      At([year |-> 2024, month |-> 4, day |-> 2], <<9, 0, 11>>) }

\* a goroutine that has made n calls and is in none
Idle(n) ==
    [op |-> "idle", call |-> "none", at |-> NoInstant, i |-> 0, out |-> <<>>,
     ret |-> FALSE, calls |-> n]

InitShared ==
    /\ pc = "start"
    /\ text \in SharedExprs
    /\ fmin = 0
    /\ fmax = 0
    /\ res = NoRes
    /\ str = <<>>
    /\ res2 = NoRes
    /\ t = NoInstant
    /\ matched = FALSE
    /\ rdr = NoReader
    /\ args = <<>>
    /\ env = <<>>
    /\ clock = NoInstant
    /\ started = FALSE
    /\ outcome = NoOutcome
    /\ code = NoCode
    /\ shared = <<>>
    /\ callers = [c \in Callers |-> Idle(0)]

\* rules, err := Parse(text), before the goroutines start
ParseSharedStep ==
    /\ pc = "start"
    /\ res' = Parse(text)
    /\ shared' = res'.val
    /\ pc' = "shared"
    /\ UNCHANGED <<text, fmin, fmax, str, res2, t, matched, callers>>
    /\ UNCHANGED ioVars

\* goroutine c calls Match(rules, at)
CallMatch(c) ==
    /\ pc = "shared"
    /\ callers[c].op \in {"idle", "returned"}
    /\ callers[c].calls < MaxCalls
    /\ \E at \in SharedInstants :
        callers' = [callers EXCEPT ![c] =
            [op |-> "match", call |-> "match", at |-> at, i |-> 1, out |-> <<>>,
             ret |-> FALSE, calls |-> @.calls + 1]]
    /\ UNCHANGED <<pc, text, fmin, fmax, res, str, res2, t, matched, shared>>
    /\ UNCHANGED ioVars

\* one turn of Match's loop in goroutine c: rule.matches(t) on the next rule
MatchLoop(c) ==
    /\ pc = "shared"
    /\ callers[c].op = "match"
    /\ LET k == callers[c].i IN
        IF k > Len(shared)
        THEN /\ callers' = [callers EXCEPT ![c].op = "returned", ![c].ret = FALSE]
             /\ UNCHANGED shared
        ELSE /\ shared' = rulesAfterMatches(shared, k, callers[c].at)
             /\ IF RuleMatches(shared[k], callers[c].at)
                THEN callers' = [callers EXCEPT ![c].op = "returned", ![c].ret = TRUE]
                ELSE callers' = [callers EXCEPT ![c].i = k + 1]
    /\ UNCHANGED <<pc, text, fmin, fmax, res, str, res2, t, matched>>
    /\ UNCHANGED ioVars

\* goroutine c starts to write the rules out, one String() at a time
CallString(c) ==
    /\ pc = "shared"
    /\ callers[c].op \in {"idle", "returned"}
    /\ callers[c].calls < MaxCalls
    /\ callers' = [callers EXCEPT ![c] =
            [op |-> "string", call |-> "string", at |-> NoInstant, i |-> 1, out |-> <<>>,
             ret |-> FALSE, calls |-> @.calls + 1]]
    /\ UNCHANGED <<pc, text, fmin, fmax, res, str, res2, t, matched, shared>>
    /\ UNCHANGED ioVars

\* one turn of the loop over the rules in goroutine c: rule.String()
StringLoop(c) ==
    /\ pc = "shared"
    /\ callers[c].op = "string"
    /\ LET k == callers[c].i IN
        IF k > Len(shared)
        THEN /\ callers' = [callers EXCEPT ![c].op = "returned"]
             /\ UNCHANGED shared
        ELSE /\ shared' = rulesAfterString(shared, k)
             /\ callers' = [callers EXCEPT ![c].out = Append(@, RuleString(shared[k])),
                                           ![c].i = k + 1]
    /\ UNCHANGED <<pc, text, fmin, fmax, res, str, res2, t, matched>>
    /\ UNCHANGED ioVars

NextShared ==
    \/ ParseSharedStep
    \/ \E c \in Callers : CallMatch(c)
    \/ \E c \in Callers : MatchLoop(c)
    \/ \E c \in Callers : CallString(c)
    \/ \E c \in Callers : StringLoop(c)

SpecShared == InitShared /\ [][NextShared]_vars

----------------------------------------------------------------------------
(* Properties.                                                             *)

\* the instant's seconds since midnight
SecondsOfDay(i) == i.hour * 3600 + i.minute * 60 + i.second

\* the three date fields of rule r accept the calendar day of instant i
DateAccepted(r, i) ==
    /\ (r.month.all \/ i.month \in r.month.values)
    /\ (r.dom.all \/ i.day \in r.dom.values)
    /\ (r.dow.all \/ Weekday(i) \in r.dow.values)

\* C1: for a parsed rule whose date fields accept the instant and whose time
\* range is not all-day with start <= end, matches is true iff
\* start <= v <= end, v the instant's seconds since midnight: both
\* boundaries are inclusive, one second outside either does not match, and
\* start = end matches exactly one second of the day.
C1_SameDayRangeIsClosedInterval ==
    (/\ pc = "matched"
     /\ DateAccepted(res.val, t)
     /\ ~res.val.timeRange.all
     /\ res.val.timeRange.start <= res.val.timeRange.end)
    => (matched <=> /\ res.val.timeRange.start <= SecondsOfDay(t)
                    /\ SecondsOfDay(t) <= res.val.timeRange.end)

\* a rule with start = end, matched at that one second
C1_Witness ==
    /\ pc = "matched"
    /\ DateAccepted(res.val, t)
    /\ ~res.val.timeRange.all
    /\ res.val.timeRange.start = res.val.timeRange.end
    /\ SecondsOfDay(t) = res.val.timeRange.end
    /\ matched

\* C2: for a parsed rule whose date fields accept the instant and whose time
\* range has end < start, matches is true iff v >= start or v <= end; both
\* boundaries are inclusive and no v with end < v < start matches.
C2_OvernightRangeIsClosedUnion ==
    (/\ pc = "matched"
     /\ DateAccepted(res.val, t)
     /\ ~res.val.timeRange.all
     /\ res.val.timeRange.end < res.val.timeRange.start)
    => (matched <=> \/ SecondsOfDay(t) >= res.val.timeRange.start
                    \/ SecondsOfDay(t) <= res.val.timeRange.end)

\* an overnight rule matched exactly at its start boundary
C2_Witness ==
    /\ pc = "matched"
    /\ DateAccepted(res.val, t)
    /\ ~res.val.timeRange.all
    /\ res.val.timeRange.end < res.val.timeRange.start
    /\ SecondsOfDay(t) = res.val.timeRange.start
    /\ matched

\* a field accepts a value iff it is the all-values field or holds the value
FieldAccepts(f, v) == f.all \/ v \in f.values

\* a time range accepts a time of day: all-day accepts every one
TimeAccepts(tr, v) ==
    \/ tr.all
    \/ (tr.start <= tr.end /\ tr.start <= v /\ v <= tr.end)
    \/ (tr.end < tr.start /\ (v >= tr.start \/ v <= tr.end))

\* C4: matches is the conjunction of four independent tests: month field on
\* the month, day-of-month field on the day, day-of-week field on the weekday
\* (0 = Sunday), time range on the time of day.
C4_MatchesIsConjunction ==
    pc = "matched"
    => (matched <=> /\ FieldAccepts(res.val.month, t.month)
                    /\ FieldAccepts(res.val.dom, t.day)
                    /\ FieldAccepts(res.val.dow, Weekday(t))
                    /\ TimeAccepts(res.val.timeRange, SecondsOfDay(t)))

\* all four constraints explicit; only the day of month refuses
C4_Witness ==
    /\ pc = "matched"
    /\ ~res.val.month.all /\ ~res.val.dom.all /\ ~res.val.dow.all /\ ~res.val.timeRange.all
    /\ FieldAccepts(res.val.month, t.month)
    /\ ~FieldAccepts(res.val.dom, t.day)
    /\ FieldAccepts(res.val.dow, Weekday(t))
    /\ TimeAccepts(res.val.timeRange, SecondsOfDay(t))
    /\ ~matched

\* s is a decimal integer: an optional sign and at least one digit
IsInteger(s) ==
    LET d == IF s # <<>> /\ s[1] \in {"+", "-"} THEN Tail(s) ELSE s
    IN  d # <<>> /\ \A k \in 1..Len(d) : d[k] \in {"0", "1", "2", "3", "4", "5", "6", "7", "8", "9"}

\* the integer a decimal text denotes
IntOf(s) == Atoi(s).val

\* the positions of a '-' that separates two integers a and b in item
RangeCuts(item) ==
    {k \in 1..Len(item) : /\ item[k] = "-"
                          /\ IsInteger(SubSeq(item, 1, k - 1))
                          /\ IsInteger(SubSeq(item, k + 1, Len(item)))}

RangeStart(item, k) == IntOf(SubSeq(item, 1, k - 1))

RangeEnd(item, k) == IntOf(SubSeq(item, k + 1, Len(item)))

\* a bare integer outside [min,max], or a range a-b with a > b or an
\* endpoint outside [min,max]; negative numbers included
BadItem(item, min, max) ==
    \/ IsInteger(item) /\ IntOf(item) \notin min..max
    \/ \E k \in RangeCuts(item) :
        \/ RangeStart(item, k) > RangeEnd(item, k)
        \/ RangeStart(item, k) \notin min..max
        \/ RangeEnd(item, k) \notin min..max

\* an integer written without '-', the character that makes an item a range
Numeral(s) == IsInteger(s) /\ s[1] # "-"

\* an integer of [min,max], or a range a-b with min <= a <= b <= max
GoodItem(item, min, max) ==
    \/ Numeral(item) /\ IntOf(item) \in min..max
    \/ \E k \in RangeCuts(item) :
        /\ Numeral(SubSeq(item, 1, k - 1))
        /\ Numeral(SubSeq(item, k + 1, Len(item)))
        /\ min <= RangeStart(item, k)
        /\ RangeStart(item, k) <= RangeEnd(item, k)
        /\ RangeEnd(item, k) <= max

\* C5: parseField fails, with an error and a Field that accepts nothing,
\* whenever some comma-separated item is a bare integer outside [min,max] or
\* a range a-b with a > b or an endpoint outside [min,max]; it succeeds when
\* every item is an integer of [min,max] or a range with
\* min <= a <= b <= max.  So 7 (dow), 32 (dom) and 13 (month) are rejected.
\* An item with a '-' is a range item (spec 4.4), so the integers and
\* endpoints of the second half are those written without a minus sign.
C5_FieldBoundsAndOrder ==
    pc = "parsed" =>
        LET items == Split(text, ",") IN
        /\ (/\ text # <<"*">>
            /\ \E k \in 1..Len(items) : BadItem(items[k], fmin, fmax))
           => (res.err # NoErr /\ res.val = [values |-> {}, all |-> FALSE])
        /\ (\A k \in 1..Len(items) : GoodItem(items[k], fmin, fmax))
           => res.err = NoErr

\* a good first item followed by the bare integer max+1: rejected
C5_Witness ==
    /\ pc = "parsed"
    /\ LET items == Split(text, ",") IN
        /\ Len(items) = 2
        /\ GoodItem(items[1], fmin, fmax)
        /\ IsInteger(items[2])
        /\ IntOf(items[2]) = fmax + 1
    /\ res.err # NoErr

\* the integers of [min,max] a field text denotes
ItemSet(item) ==
    IF IsInteger(item) THEN {IntOf(item)}
    ELSE UNION {RangeStart(item, k) .. RangeEnd(item, k) : k \in RangeCuts(item)}

TextSet(s, min, max) ==
    IF s = <<"*">> THEN min..max
    ELSE LET items == Split(s, ",") IN UNION {ItemSet(items[k]) : k \in 1..Len(items)}

\* C10: for a valid field text, parsing the text String() renders succeeds
\* and gives a Field that accepts exactly the integers the original text
\* denotes: duplicates and overlapping items collapse without error.
C10_FieldRoundTripSameSet ==
    pc = "reparsed" =>
        /\ res2.err = NoErr
        /\ TextSet(str, fmin, fmax) = TextSet(text, fmin, fmax)
        /\ {v \in fmin..fmax : res2.val.all \/ v \in res2.val.values}
           = TextSet(text, fmin, fmax)
        /\ \A v \in (fmin - 1)..(fmax + 1) :
            (res2.val.all \/ v \in res2.val.values) <=> (res.val.all \/ v \in res.val.values)

\* two overlapping or touching items rendered as a different text
C10_Witness ==
    /\ pc = "reparsed"
    /\ Len(Split(text, ",")) = 2
    /\ str # text
    /\ Cardinality(res2.val.values) >= 2
    /\ res2.err = NoErr

\* a time-of-day sub-token: 2 or 3 colon-separated integers, hour 0-23,
\* minute and second 0-59
ValidTimeOfDay(s) ==
    LET c == Split(s, ":") IN
    /\ Len(c) \in {2, 3}
    /\ \A k \in 1..Len(c) : IsInteger(c[k])
    /\ IntOf(c[1]) \in 0..23
    /\ IntOf(c[2]) \in 0..59
    /\ (Len(c) = 3 => IntOf(c[3]) \in 0..59)

DashCount(s) == Cardinality({k \in 1..Len(s) : s[k] = "-"})

\* exactly two time-of-day sub-tokens separated by a single '-'
WellFormedTimeRange(s) ==
    /\ DashCount(s) = 1
    /\ \A k \in 1..2 : ValidTimeOfDay(Split(s, "-")[k])

\* C6: parseTimeRange fails, producing no TimeRange, for every token other
\* than "*" that is not two sub-tokens around one '-', or has a sub-token
\* without exactly 2 or 3 colon-separated integers, or has an hour outside
\* 0-23 or a minute or second outside 0-59.
C6_TimeRangeRejects ==
    (pc = "parsed" /\ text # <<"*">> /\ ~WellFormedTimeRange(text))
    => /\ res.err # NoErr
       /\ res.val = [start |-> 0, end |-> 0, all |-> FALSE,
                     overnight |-> FALSE, hasSeconds |-> FALSE]

\* a valid first sub-token, then one whose hour is 24
C6_Witness ==
    /\ pc = "parsed"
    /\ DashCount(text) = 1
    /\ ValidTimeOfDay(Split(text, "-")[1])
    /\ LET c == Split(Split(text, "-")[2], ":") IN
        /\ Len(c) = 2
        /\ IsInteger(c[1]) /\ IntOf(c[1]) = 24
        /\ IsInteger(c[2]) /\ IntOf(c[2]) \in 0..59
    /\ res.err # NoErr

\* the rearrangements of a sequence of rules
Rearranged(rules) ==
    LET n == Len(rules)
        perms == {p \in [1..n -> 1..n] : \A a, b \in 1..n : p[a] = p[b] => a = b}
    IN  {[k \in 1..n |-> rules[p[k]]] : p \in perms}

\* C3: Match is true iff at least one rule of the set matches the instant;
\* on an empty set it is false; the order of the rules does not matter.
C3_MatchIsDisjunction ==
    pc = "matched" =>
        /\ matched <=> \E k \in 1..Len(res.val) : RuleMatches(res.val[k], t)
        /\ res.val = <<>> => ~matched
        /\ \A q \in Rearranged(res.val) : Match(q, t) = matched

\* two rules of which only the second matches
C3_Witness ==
    /\ pc = "matched"
    /\ Len(res.val) = 2
    /\ ~RuleMatches(res.val[1], t)
    /\ RuleMatches(res.val[2], t)
    /\ matched

\* the number of whitespace-separated tokens of a segment
TokenCount(seg) == Len(Fields(TrimSpace(seg)))

FieldCountError == <<[msg |-> "rule must have 4 fields: time dow dom month", arg |-> <<>>]>>

\* segment k is invalid on its own
SegmentInvalid(seg) == parseRule(TrimSpace(seg)).err # NoErr

\* C7: a segment that does not split into exactly 4 whitespace-separated
\* tokens fails with the field-count error whatever the tokens are (3
\* tokens, more than 4 as with a trailing comment, none), so Parse fails on
\* the empty string and on a leading, trailing or doubled ';'.
C7_WrongFieldCountFails ==
    pc = "parsed" =>
        LET segs == Split(text, ";") IN
        \A k \in 1..Len(segs) :
            TokenCount(segs[k]) # 4 =>
                /\ parseRule(TrimSpace(segs[k])).err = FieldCountError
                /\ res.err # NoErr
                /\ res.val = <<>>
                /\ (\A j \in 1..(k - 1) : ~SegmentInvalid(segs[j]))
                   => res.err = <<[msg |-> "invalid rule", arg |-> segs[k]]>> \o FieldCountError

\* two valid rules around a doubled ';'
C7_Witness ==
    /\ pc = "parsed"
    /\ LET segs == Split(text, ";") IN
        /\ Len(segs) = 3
        /\ ~SegmentInvalid(segs[1])
        /\ segs[2] = <<>>
        /\ ~SegmentInvalid(segs[3])
    /\ res.err = <<[msg |-> "invalid rule", arg |-> <<>>]>> \o FieldCountError

\* C8: if any segment is invalid Parse returns an error and no rules at all,
\* and the error is that of the leftmost invalid segment, with its text.
C8_ParseFailsFast ==
    pc = "parsed" =>
        LET segs == Split(text, ";") IN
        \A k \in 1..Len(segs) :
            SegmentInvalid(segs[k]) =>
                /\ res.val = <<>>
                /\ res.err # NoErr
                /\ (\A j \in 1..(k - 1) : ~SegmentInvalid(segs[j]))
                   => /\ res.err[1] = [msg |-> "invalid rule", arg |-> segs[k]]
                      /\ Tail(res.err) = parseRule(TrimSpace(segs[k])).err

\* a valid segment, then an invalid one: no rules, the second one's error
C8_Witness ==
    /\ pc = "parsed"
    /\ LET segs == Split(text, ";") IN
        /\ Len(segs) = 2
        /\ ~SegmentInvalid(segs[1])
        /\ SegmentInvalid(segs[2])
        /\ res.err[1].arg = segs[2]
    /\ res.val = <<>>

\* C9: a successful Parse returns exactly one Rule per segment, in the order
\* of the segments, so at least one Rule.
C9_OneRulePerSegment ==
    (pc = "parsed" /\ res.err = NoErr) =>
        LET segs == Split(text, ";") IN
        /\ Len(res.val) = Len(segs)
        /\ Len(res.val) >= 1
        /\ \A k \in 1..Len(segs) :
            /\ ~SegmentInvalid(segs[k])
            /\ res.val[k] = parseRule(TrimSpace(segs[k])).val

\* two different rules, in the order written
C9_Witness ==
    /\ pc = "parsed"
    /\ res.err = NoErr
    /\ Len(res.val) = 2
    /\ res.val[1] # res.val[2]
    /\ res.val[1] = parseRule(TrimSpace(Split(text, ";")[1])).val

\* C11: canonicalization is idempotent.  When a valid expression has been
\* parsed and its rules written back as text (String() values joined by "; "),
\* that text parses without error and writing its rules back gives the very
\* same text.
C11_CanonicalizationIdempotent ==
    pc \in {"reparsed", "rematched"} =>
        /\ res2.err = NoErr
        /\ Render(res2.val) = str

\* a non-canonical expression (unpadded hour, seconds on one boundary, a run
\* written in pieces, a repeated value, a signed value) went round the trip
C11_Witness ==
    /\ pc = "reparsed"
    /\ res2.err = NoErr
    /\ Len(res.val) >= 2
    /\ str # text
    /\ \E k \in 1..Len(res.val) :
        /\ res.val[k].timeRange.hasSeconds
        /\ res.val[k].timeRange.end % Minute # 0
        /\ res.val[k].timeRange.start % Minute = 0
        /\ res.val[k].dow.values = {1, 2, 3, 5}
    /\ \E k \in 1..Len(res.val) : res.val[k].timeRange.overnight
    /\ \E k \in 1..Len(res.val) : res.val[k].timeRange.all

\* C13: the round trip through the canonical text is faithful.  For a valid
\* expression and any instant, the rules parsed from the rendered text match
\* the instant exactly when the rules parsed from the original text do.
C13_RoundTripSameMatches ==
    pc = "rematched" => matched = Match(res.val, t)

\* both verdicts occur, for a rule set whose text changed in the round trip
\* and whose time range has seconds, at an instant inside the first minute
C13_Witness ==
    /\ pc = "rematched"
    /\ matched
    /\ str # text
    /\ \E k \in 1..Len(res.val) : res.val[k].timeRange.hasSeconds
    /\ t.second # 0

\* the integers of [min,max] a Field accepts
Accepted(f, min, max) == {v \in min..max : FieldMatches(f, v)}

\* every text Field.String can return for f
Renderings(f) == {FieldStringOf(f, keys) : keys \in MapRange(f.values)}

\* C12 as stated: two valid field texts whose Fields accept the same integers
\* of [min,max] render to the same string.
C12_SameSetSameString ==
    (/\ pc = "compared"
     /\ res2.err = NoErr
     /\ Accepted(res2.val, fmin, fmax) = Accepted(res.val, fmin, fmax))
    => Renderings(res2.val) = {str}

\* C12: for fixed bounds, two valid field texts of the same kind (both "*",
\* or both explicit) whose Fields accept the same integers of [min,max]
\* render to the same string; the text "*" renders as "*", which is not the
\* rendering "min-max" of an explicit text that accepts every integer.
C12_SameExplicitSetSameString ==
    /\ (/\ pc = "compared"
        /\ res2.err = NoErr
        /\ res2.val.all = res.val.all
        /\ Accepted(res2.val, fmin, fmax) = Accepted(res.val, fmin, fmax))
       => Renderings(res2.val) = {str}
    /\ (pc = "compared" /\ res.val.all) => str = <<"*">>
    /\ (pc = "compared" /\ ~res.val.all /\ res.val.values = fmin..fmax)
       => str = Itoa(fmin) \o <<"-">> \o Itoa(fmax)

\* two explicit texts, the first not in canonical form, accept the same two
\* or more integers with a gap between them
C12_Witness ==
    /\ pc = "compared"
    /\ res2.err = NoErr
    /\ ~res.val.all /\ ~res2.val.all
    /\ res2.val.values = res.val.values
    /\ Cardinality(res.val.values) >= 2
    /\ \E v \in fmin..fmax : v \notin res.val.values /\ v - 1 \in res.val.values
                              /\ v + 1 \in res.val.values
    /\ text # str

\* the lines of a stream: its pieces between "\n"
StreamLines(data) == Split(data, "\n")

\* the lines that are not blank after trimming, in stream order
RECURSIVE NonBlank(_)
NonBlank(lines) ==
    IF lines = <<>> THEN <<>>
    ELSE (IF TrimSpace(lines[1]) = <<>> THEN <<>> ELSE <<TrimSpace(lines[1])>>)
         \o NonBlank(Tail(lines))

\* Parse(line) of every line, one after the other
RECURSIVE ConcatParsed(_)
ConcatParsed(lines) ==
    IF lines = <<>> THEN <<>> ELSE Parse(lines[1]).val \o ConcatParsed(Tail(lines))

\* C14: ParseFromReader is all-or-nothing over lines.  When the stream has
\* been read: if every non-blank line is a valid expression the result is,
\* without error, the rules of Parse(line) of those lines in line order (none
\* for a stream without non-blank lines); otherwise the result is no rules
\* and an error that names the first invalid line and wraps Parse's error.
C14_ReaderAllOrNothing ==
    (pc = "loaded" /\ ~rdr.fails) =>
        LET lines == NonBlank(StreamLines(rdr.data))
            bad == {k \in 1..Len(lines) : Parse(lines[k]).err # NoErr}
        IN  IF bad = {}
            THEN res.err = NoErr /\ res.val = ConcatParsed(lines)
            ELSE LET first == CHOOSE k \in bad : \A j \in bad : k <= j
                 IN  /\ res.val = <<>>
                     /\ res.err = Errorf("invalid rule", lines[first], Parse(lines[first]).err)

\* what the command line asks for, read off the inputs of the process
CliExpr == IF Len(args) = 0 THEN <<>> ELSE args[1]

UsageError == Len(args) = 0

ExprError == Len(args) >= 1 /\ Parse(CliExpr).err # NoErr

TestTimeError == env # <<>> /\ ParseRFC3339(env).err # NoErr

\* the current or injected instant
CliInstant == IF env = <<>> THEN clock ELSE ParseRFC3339(env).val

InRange == Match(Parse(CliExpr).val, CliInstant)

\* the expression parsed and the instant is known, so Match is evaluated
Evaluated == ~UsageError /\ ~ExprError /\ ~TestTimeError

Exited == code # NoCode

\* runs in which no sub-command is to be started
NoCommandRun == UsageError \/ ExprError \/ TestTimeError \/ ~InRange \/ Len(args) = 1

C15_Safe ==
    /\ started => (Evaluated /\ InRange /\ res.err = NoErr /\ matched)
    /\ (Exited /\ (UsageError \/ ExprError)) => (code = 2 /\ ~started)
    /\ (Exited /\ Evaluated /\ ~InRange) => (code = 1 /\ ~started)
    /\ (Exited /\ Evaluated /\ InRange /\ Len(args) = 1) => (code = 0 /\ ~started)

\* C15: the sub-command is started only after the expression has parsed and
\* Match has returned true for the current or injected instant.  A usage or
\* parse error ends the process with code 2 and an instant outside the range
\* with code 1, in both cases with the sub-command never started; a matching
\* instant without a sub-command ends it with code 0.  In all these runs the
\* process does exit.
C15_CommandOnlyAfterMatch ==
    /\ []C15_Safe
    /\ (NoCommandRun ~> Exited)

\* an injected instant outside the range, a sub-command given and not started
C15_Witness ==
    /\ Exited
    /\ code = 1
    /\ ~started
    /\ Len(args) = 2
    /\ env # <<>>
    /\ res.err = NoErr
    /\ ~matched

PlainDecimal(s) == s # <<>> /\ (\A k \in 1..Len(s) : IsDigit(s[k])) /\ Itoa(IntOf(s)) = s

\* a rendered run: a plain decimal, or two of them with one '-' between
WellFormedRun(run) ==
    \/ PlainDecimal(run)
    \/ \E k \in 1..Len(run) :
        /\ run[k] = "-"
        /\ PlainDecimal(SubSeq(run, 1, k - 1))
        /\ PlainDecimal(SubSeq(run, k + 1, Len(run)))

\* the first and the last integer of a rendered run
RunLo(run) == IF Contains(run, "-") THEN IntOf(Split(run, "-")[1]) ELSE IntOf(run)

RunHi(run) == IF Contains(run, "-") THEN IntOf(Split(run, "-")[2]) ELSE IntOf(run)

\* C17: Field.String of a non-empty explicit set is a list of runs joined by
\* ',': each run is a bare integer (one value) or "a-b" with a < b, the runs
\* ascend with a gap of at least one missing integer between neighbours (so
\* each run is maximal), and together they cover exactly the values of the
\* set.  The all-values Field renders as "*".
C17_FieldStringMaximalRuns ==
    (pc \in {"rendered", "reparsed", "compared"}) =>
        IF res.val.all THEN str = <<"*">>
        ELSE LET runs == Split(str, ",") IN
            /\ res.val.values # {}
            /\ \A k \in 1..Len(runs) : WellFormedRun(runs[k])
            /\ \A k \in 1..Len(runs) : Contains(runs[k], "-") => RunLo(runs[k]) < RunHi(runs[k])
            /\ \A k \in 1..(Len(runs) - 1) : RunLo(runs[k + 1]) > RunHi(runs[k]) + 1
            /\ UNION {RunLo(runs[k]) .. RunHi(runs[k]) : k \in 1..Len(runs)} = res.val.values

\* a text that is not in canonical form was rendered as a range followed by
\* a bare value
C17_Witness ==
    /\ pc = "rendered"
    /\ ~res.val.all
    /\ text # str
    /\ LET runs == Split(str, ",") IN
        /\ Len(runs) = 2
        /\ Contains(runs[1], "-")
        /\ ~Contains(runs[2], "-")

\* the number of ':'-separated components of a time-of-day sub-token
Components(s) == Len(Split(s, ":"))

\* some boundary sub-token of the time range text has a seconds component
SomeBoundaryHasSeconds(s) ==
    s # <<"*">> /\ \E k \in 1..Len(Split(s, "-")) : Components(Split(s, "-")[k]) = 3

\* C18: a TimeRange returned by a successful parseTimeRange is all-day or
\* has 0 <= start < 86400 and 0 <= end < 86400; overnight holds exactly when
\* it is not all-day and end < start; hasSeconds holds exactly when a
\* boundary sub-token had a seconds component, and without it start and end
\* are whole minutes.
C18_TimeRangeInvariants ==
    (pc = "parsed" /\ res.err = NoErr) =>
        LET tr == res.val IN
        /\ tr.all \/ (tr.start \in 0..86399 /\ tr.end \in 0..86399)
        /\ tr.overnight <=> (~tr.all /\ tr.end < tr.start)
        /\ tr.hasSeconds <=> SomeBoundaryHasSeconds(text)
        /\ (~tr.all /\ ~tr.hasSeconds) => (tr.start % 60 = 0 /\ tr.end % 60 = 0)

\* an overnight range with seconds written on the end boundary only
C18_Witness ==
    /\ pc = "parsed"
    /\ res.err = NoErr
    /\ res.val.overnight
    /\ res.val.hasSeconds
    /\ res.val.end % 60 # 0
    /\ Components(Split(text, "-")[1]) = 2

\* C19: a Field returned by a successful parseField is the all-values Field,
\* and then the text is "*", or it has an explicit set that is not empty and
\* lies within [min,max].
C19_FieldNeverEmpty ==
    (pc = "parsed" /\ res.err = NoErr) =>
        \/ res.val = AllField /\ text = <<"*">>
        \/ /\ ~res.val.all
           /\ res.val.values # {}
           /\ res.val.values \subseteq fmin..fmax

\* an explicit set built from two items that reaches both bounds
C19_Witness ==
    /\ pc = "parsed"
    /\ res.err = NoErr
    /\ ~res.val.all
    /\ Contains(text, ",")
    /\ fmin \in res.val.values
    /\ fmax \in res.val.values
    /\ res.val.values # fmin..fmax

\* the error of a bounded field of the rule, with its label
Labeled(label, token, min, max) ==
    LET e == parseField(token, min, max).err
    IN  IF e = NoErr THEN NoErr ELSE <<[msg |-> label, arg |-> <<>>]>> \o e

\* the first failure of a four-token rule, in the order time, dow, dom, month
FirstFailure(tokens) ==
    LET time == parseTimeRange(tokens[1]).err
        dow == Labeled("invalid dow", tokens[2], 0, 6)
        dom == Labeled("invalid dom", tokens[3], 1, 31)
        month == Labeled("invalid month", tokens[4], 1, 12)
    IN  IF time # NoErr THEN time
        ELSE IF dow # NoErr THEN dow
        ELSE IF dom # NoErr THEN dom
        ELSE month

\* C20: parseRule reports only the first failure, in the order field count,
\* time range, dow, dom, month: a wrong number of tokens gives the field-count
\* error whatever the tokens are; otherwise an invalid time token gives the
\* time range's own error without a label; otherwise the error of the first
\* invalid one of dow, dom, month, labeled with that field.
C20_FirstFailureOnly ==
    pc = "parsed" =>
        LET tokens == Fields(text) IN
        IF Len(tokens) # 4 THEN res.err = FieldCountError
        ELSE /\ res.err = FirstFailure(tokens)
             /\ parseTimeRange(tokens[1]).err # NoErr =>
                    res.err[1].msg \notin {"invalid dow", "invalid dom", "invalid month"}

\* four tokens with an invalid time, dow and month: the time error is reported
C20_Witness ==
    /\ pc = "parsed"
    /\ Len(Fields(text)) = 4
    /\ parseTimeRange(Fields(text)[1]).err # NoErr
    /\ parseField(Fields(text)[2], 0, 6).err # NoErr
    /\ parseField(Fields(text)[4], 1, 12).err # NoErr
    /\ res.err = parseTimeRange(Fields(text)[1]).err

\* C21: Match, Rule.matches and the String() methods never change the rule
\* set they read.  In every interleaving of the callers' steps the shared
\* rule set is the one Parse returned, every finished Match call has returned
\* what Match returns on that rule set when run alone, and every finished
\* formatting has returned the String() of each rule.
C21_ReadersLeaveRulesUnchanged ==
    pc = "shared" =>
        /\ shared = res.val
        /\ \A c \in Callers :
            (callers[c].op = "returned" /\ callers[c].call = "match")
                => callers[c].ret = Match(res.val, callers[c].at)
        /\ \A c \in Callers :
            (callers[c].op = "returned" /\ callers[c].call = "string")
                => callers[c].out = [k \in 1..Len(res.val) |-> RuleString(res.val[k])]

\* one goroutine has finished its second Match, with a match, while another
\* is between two String() calls on the same rule set
C21_Witness ==
    /\ pc = "shared"
    /\ Len(shared) = 2
    /\ \E c \in Callers, d \in Callers :
        /\ c # d
        /\ callers[c].op = "returned"
        /\ callers[c].call = "match"
        /\ callers[c].calls = 2
        /\ callers[c].ret
        /\ callers[d].op = "string"
        /\ callers[d].i = 2

\* the rule is overnight, its day of week is the single weekday d, and the
\* instant is in the early-morning part of the range
EarlyMorningOfWeekdayRule(r, i, d) ==
    /\ ~r.timeRange.all
    /\ r.timeRange.end < r.timeRange.start
    /\ ~r.dow.all
    /\ r.dow.values = {d}
    /\ SecondsOfDay(i) <= r.timeRange.end

\* C22: an overnight rule tests its date fields against the instant's own
\* calendar day.  With the day of week restricted to the single weekday d, an
\* instant at a time <= end matches on weekday d (its day of month and month
\* being accepted) and does not match on weekday d+1, the morning after the
\* window that began on day d.
C22_OvernightUsesOwnDay ==
    \A d \in 0..6 :
        (pc = "matched" /\ EarlyMorningOfWeekdayRule(res.val, t, d)) =>
            /\ (/\ Weekday(t) = d
                /\ FieldMatches(res.val.dom, t.day)
                /\ FieldMatches(res.val.month, t.month)) => matched
            /\ Weekday(t) = (d + 1) % 7 => ~matched

\* a Monday-only overnight rule at 01:30 of a Tuesday: no match, although
\* the day of month and the month are accepted
C22_Witness ==
    /\ pc = "matched"
    /\ EarlyMorningOfWeekdayRule(res.val, t, 1)
    /\ Weekday(t) = 2
    /\ res.val.dom.all
    /\ res.val.month.all
    /\ ~matched

\* the rule text with the two boundaries of its time range exchanged
Swapped(ruleText) ==
    LET tokens == Fields(ruleText)
        bounds == Split(tokens[1], "-")
    IN  Join(<<bounds[2] \o <<"-">> \o bounds[1], tokens[2], tokens[3], tokens[4]>>, <<" ">>)

\* C23: for two times of day a < b and the same date fields, the rule "a-b"
\* and the overnight rule "b-a" between them match every time of day on an
\* accepted date, and both match only at a and at b.
C23_RangeAndComplementCover ==
    (/\ pc = "matched"
     /\ ~res.val.timeRange.all
     /\ res.val.timeRange.start < res.val.timeRange.end
     /\ DateAccepted(res.val, t))
    => LET other == parseRule(Swapped(text))
           alsoMatched == RuleMatches(other.val, t)
       IN  /\ other.err = NoErr
           /\ other.val.timeRange.overnight
           /\ other.val.timeRange.start = res.val.timeRange.end
           /\ other.val.timeRange.end = res.val.timeRange.start
           /\ matched \/ alsoMatched
           /\ (matched /\ alsoMatched)
                  <=> SecondsOfDay(t) \in {res.val.timeRange.start, res.val.timeRange.end}

\* a range with seconds, at its end b: "a-b" and "b-a" both match
C23_Witness ==
    /\ pc = "matched"
    /\ ~res.val.timeRange.all
    /\ res.val.timeRange.start < res.val.timeRange.end
    /\ res.val.timeRange.hasSeconds
    /\ DateAccepted(res.val, t)
    /\ SecondsOfDay(t) = res.val.timeRange.end
    /\ matched
    /\ RuleMatches(parseRule(Swapped(text)).val, t)

====
